---- MODULE Spec2Model ----
(***************************************************************************)
(* Poem Anthology Builder (src/main.py): the two text helpers              *)
(* sanitize_filename and escape_latex, and the Streamlit script: Load      *)
(* Poems, the per-poem image uploaders, Generate Anthology with its two    *)
(* pdflatex passes and the downloads.                                      *)
(*                                                                         *)
(* A Python str is a sequence of one-character strings; bytes are a        *)
(* sequence of integers 0..255.                                            *)
(***************************************************************************)
EXTENDS Integers, Sequences, FiniteSets, TLC

VARIABLES
    arg,              \* helper harness: the argument a helper was called with
    ret,              \* helper harness: the values returned so far, in call order
    pc,               \* position of the script run ("idle": waiting for the user)
    trigger,          \* the interaction that started the current script run
    poems_dir,        \* value of the st.text_input (a widget value, kept between runs)
    session_state,    \* st.session_state: a mapping that holds "poems_data" or nothing
    uploads,          \* st.file_uploader values, by widget key (the poem name)
    temp_images,      \* files under temp_images/: set of [name, data]
    compiled_images,  \* files under compiled_images/: set of [name, data]
    tex_file,         \* whether anthology.tex exists
    pdf_exists,       \* whether anthology.pdf exists
    template_data,    \* the dict handed to template.render in the current run
    invocations,      \* return codes of the pdflatex runs of the current run
    proc_stdout,      \* stdout bytes captured from the failed pdflatex run
    proc_stderr,      \* stderr bytes captured from the failed pdflatex run
    screen,           \* what the current script run has displayed, in order
    os_sep,           \* os.sep of the host
    runs              \* script runs started so far

vars == <<arg, ret, pc, trigger, poems_dir, session_state, uploads, temp_images,
          compiled_images, tex_file, pdf_exists, template_data, invocations,
          proc_stdout, proc_stderr, screen, os_sep, runs>>

appvars == <<pc, trigger, poems_dir, session_state, uploads, temp_images,
             compiled_images, tex_file, pdf_exists, template_data, invocations,
             proc_stdout, proc_stderr, screen, os_sep, runs>>

(***************************************************************************)
(* Bounds of the model.                                                    *)
(***************************************************************************)
MaxLen == 3        \* longest enumerated helper argument
MaxUploads == 2    \* files held by all uploaders together
MaxImages == 5     \* longest images list a script run may end with
MaxRuns == 5       \* script runs of one session

(***************************************************************************)
(* Strings.                                                                *)
(***************************************************************************)
BS == "\\"
NL == "\n"
TAB == "\t"

Letters == {"a", "b", "c", "g", "h", "k", "m", "n", "o", "p", "t", "x", "y",
            "A", "D", "E", "M", "R"}
Digits == {"0", "1", "5"}

RECURSIVE SeqsUpTo(_, _)
SeqsUpTo(S, n) ==
    IF n = 0 THEN {<<>>}
    ELSE LET shorter == SeqsUpTo(S, n - 1)
         IN  shorter \cup {Append(s, c) : s \in shorter, c \in S}

\* str.replace(old, new) for a one-character old: every occurrence, left to right
RECURSIVE str_replace(_, _, _)
str_replace(s, old, new) ==
    IF s = <<>> THEN <<>>
    ELSE (IF Head(s) = old THEN new ELSE <<Head(s)>>) \o str_replace(Tail(s), old, new)

(***************************************************************************)
(* sanitize_filename                                                       *)
(***************************************************************************)
\* \w of a str pattern: alphanumerics and the underscore
IsWordChar(c) == c \in Letters \cup Digits \cup {"_"}

\* the character class [^\w\-_\.]
SanitizeClassMatches(c) == ~(IsWordChar(c) \/ c \in {"-", "_", "."})

\* re.sub(pattern, '', s, count) for a one-character class: the first `count`
\* matches, left to right, are replaced by the empty string (count = -1: all)
RECURSIVE re_sub_class_empty(_, _)
re_sub_class_empty(s, count) ==
    IF s = <<>> \/ count = 0 THEN s
    ELSE IF SanitizeClassMatches(Head(s))
         THEN re_sub_class_empty(Tail(s), IF count < 0 THEN count ELSE count - 1)
         ELSE <<Head(s)>> \o re_sub_class_empty(Tail(s), count)

\* faulty variant: the class is stripped before the spaces are replaced
sanitize_filename_strip_first(filename) ==
    str_replace(re_sub_class_empty(filename, -1), " ", <<"_">>)

\* faulty variant: re.sub(..., count=1) strips only the first offending character
sanitize_filename_count_one(filename) ==
    re_sub_class_empty(str_replace(filename, " ", <<"_">>), 1)

sanitize_filename(filename) ==
    re_sub_class_empty(str_replace(filename, " ", <<"_">>), -1)

(***************************************************************************)
(* escape_latex                                                            *)
(***************************************************************************)
textbackslash == <<BS, "t", "e", "x", "t", "b", "a", "c", "k", "s", "l", "a", "s", "h", "{", "}">>
textasciitilde == <<BS, "t", "e", "x", "t", "a", "s", "c", "i", "i", "t", "i", "l", "d", "e", "{", "}">>
textasciicircum == <<BS, "t", "e", "x", "t", "a", "s", "c", "i", "i", "c", "i", "r", "c", "u", "m", "{", "}">>

\* the dict's keys, in insertion order
replacement_keys == <<BS, "{", "}", "#", "$", "%", "&", "_", "~", "^">>

\* faulty variant: the table has lost its '&' entry
replacements_without_ampersand ==
    [c \in {BS, "{", "}", "#", "$", "%", "_", "~", "^"} |->
        CASE c = BS  -> textbackslash
          [] c = "~" -> textasciitilde
          [] c = "^" -> textasciicircum
          [] OTHER   -> <<BS, c>>]

replacements ==
    [c \in {replacement_keys[i] : i \in 1..Len(replacement_keys)} |->
        CASE c = BS  -> textbackslash
          [] c = "~" -> textasciitilde
          [] c = "^" -> textasciicircum
          [] OTHER   -> <<BS, c>>]

\* the compiled alternation of the escaped keys: whether it matches at s[i]
\* (each alternative is one literal character)
RegexMatchesAt(s, i) == \E k \in DOMAIN replacements : s[i] = k

\* regex.search(s, pos): the leftmost match at or after pos, 0 when there is none
RECURSIVE RegexSearch(_, _)
RegexSearch(s, pos) ==
    IF pos > Len(s) THEN 0
    ELSE IF RegexMatchesAt(s, pos) THEN pos
    ELSE RegexSearch(s, pos + 1)

\* regex.sub(repl, s): the text between matches is copied, each match is replaced
\* by repl(match), and the scan resumes behind the match in s
RECURSIVE RegexSub(_, _)
RegexSub(s, pos) ==
    LET m == RegexSearch(s, pos)
    IN  IF m = 0 THEN SubSeq(s, pos, Len(s))
        ELSE SubSeq(s, pos, m - 1) \o replacements[s[m]] \o RegexSub(s, m + 1)

\* faulty variant: one str.replace per table entry, in table order, each over the whole
\* text produced so far
RECURSIVE ChainedReplace(_, _)
ChainedReplace(s, k) ==
    IF k > Len(replacement_keys) THEN s
    ELSE ChainedReplace(
             str_replace(s, replacement_keys[k], replacements[replacement_keys[k]]),
             k + 1)

escape_latex_chained(s) == ChainedReplace(s, 1)

escape_latex(s) == RegexSub(s, 1)

\* st.session_state before anything is stored; the uploaders before any is drawn
NoSession == [k \in {} |-> <<>>]
NoUploads == [k \in {} |-> <<>>]

(***************************************************************************)
(* The file system the user points the application at.                     *)
(***************************************************************************)
Name_a_txt == <<"a", ".", "t", "x", "t">>
Name_a_b_txt == <<"a", "_", "b", ".", "t", "x", "t">>
Name_c_txt == <<"c", ".", "t", "x", "t">>
Name_dot_txt == <<".", "t", "x", "t">>
Name_dot_txt_txt == <<".", "t", "x", "t", ".", "t", "x", "t">>
Name_notes_md == <<"n", ".", "m", "d">>
Name_README_txt == <<"R", "E", "A", "D", "M", "E", ".", "t", "x", "t">>
Name_requirements_txt ==
    <<"r", "e", "q", "u", "i", "r", "e", "m", "e", "n", "t", "s", ".", "t", "x", "t">>
Name_anthology_builder_py ==
    <<"a", "n", "t", "h", "o", "l", "o", "g", "y", "_", "b", "u", "i", "l", "d", "e", "r",
      ".", "p", "y">>

File(n, t) == [name |-> n, text |-> t]

\* the directories the user can name: the regular files directly in each, and
\* the files one level down
Directories ==
    [d \in {"cwd", "poems", "hidden"} |->
        CASE d = "cwd" ->
               [files |-> {File(Name_README_txt, <<"r">>), File(Name_requirements_txt, <<"s">>)},
                nested |-> {}]
          [] d = "poems" ->
               [files |-> {File(Name_a_txt, <<"x", "%", NL, "y">>),
                           File(Name_a_b_txt, <<"a", "_", "b">>),
                           File(Name_README_txt, <<"r">>), File(Name_notes_md, <<"n">>)},
                nested |-> {File(Name_c_txt, <<"c">>)}]
          [] d = "hidden" ->
               [files |-> {File(Name_dot_txt, <<"p">>), File(Name_dot_txt_txt, <<"q">>)},
                nested |-> {}]]

\* what the user can type into the text input ("nowhere" is no directory)
DirInputs == DOMAIN Directories \cup {"nowhere"}

\* the files the user can drop on an uploader
UploadChoices ==
    {[name |-> <<"b", " ", "c", ".", "p", "n", "g">>, data |-> "img1"],
     [name |-> <<"c", ".", "p", "n", "g">>, data |-> "img2"]}

(***************************************************************************)
(* Step 1: Load Poems                                                      *)
(***************************************************************************)
EXCLUDED_FILES == {Name_requirements_txt, Name_README_txt, Name_anthology_builder_py}

EndsWith(s, suffix) ==
    /\ Len(s) >= Len(suffix)
    /\ SubSeq(s, Len(s) - Len(suffix) + 1, Len(s)) = suffix

\* Path.glob("*.txt"): the entries directly in the directory whose name ends in
\* ".txt" (the nested files are not visited)
GlobTxt(d) == {f \in Directories[d].files : EndsWith(f.name, <<".", "t", "x", "t">>)}

\* str.rfind('.'): the last index of a dot, 0 when there is none
RECURSIVE RFindDot(_, _)
RFindDot(s, i) == IF i = 0 THEN 0 ELSE IF s[i] = "." THEN i ELSE RFindDot(s, i - 1)

\* PurePath.stem: the name without its last suffix; a leading dot starts no suffix
Stem(n) ==
    LET i == RFindDot(n, Len(n))
    IN  IF 1 < i /\ i < Len(n) THEN SubSeq(n, 1, i - 1) ELSE n

\* the orders in which a listing can come back
Orderings(S) ==
    {o \in [1..Cardinality(S) -> S] : \A i, j \in 1..Cardinality(S) : o[i] = o[j] => i = j}

DictKeys(d) == {d[i].name : i \in 1..Len(d)}

\* d[key] = value on a dict kept in insertion order
DictSet(d, key, value) ==
    IF key \in DictKeys(d)
    THEN [i \in 1..Len(d) |-> IF d[i].name = key THEN value ELSE d[i]]
    ELSE Append(d, value)

\* one element drawn on the page: st.error, st.warning, st.success, st.text,
\* st.download_button, or the box of an uncaught exception
ShowDetail(kind, what, detail) == [kind |-> kind, what |-> what, detail |-> detail]
Show(kind, what) == ShowDetail(kind, what, <<>>)

\* lines 91-100: one entry per listed file, keyed by the stem
RECURSIVE LoadEntries(_, _, _)
LoadEntries(poems, i, acc) ==
    IF i > Len(poems) THEN acc
    ELSE LoadEntries(poems, i + 1,
             DictSet(acc, Stem(poems[i].name),
                     [name |-> Stem(poems[i].name),
                      content |-> escape_latex(poems[i].text),
                      images |-> <<>>]))

HasPoems == "poems_data" \in DOMAIN session_state
PoemsData == IF HasPoems THEN session_state.poems_data ELSE <<>>

\* lines 82-104, run when the Load Poems button was the interaction
LoadPoems ==
    /\ pc = "step1"
    /\ pc' = "step2"
    /\ IF trigger # "load"
       THEN UNCHANGED <<session_state, screen>>
       ELSE IF poems_dir \notin DOMAIN Directories
       THEN /\ screen' = Append(screen, Show("error", "not a valid directory"))
            /\ UNCHANGED session_state
       ELSE LET listed == {f \in GlobTxt(poems_dir) : f.name \notin EXCLUDED_FILES}
            IN  IF listed = {}
                THEN /\ screen' = Append(screen, Show("warning", "no txt files"))
                     /\ UNCHANGED session_state
                ELSE \E poems \in Orderings(listed) :
                        /\ screen' = Append(screen, Show("success", "found poems"))
                        /\ session_state' =
                              [k \in {"poems_data"} |-> LoadEntries(poems, 1, <<>>)]
    /\ UNCHANGED <<arg, ret, trigger, poems_dir, uploads, temp_images, compiled_images,
                   tex_file, pdf_exists, template_data, invocations, proc_stdout,
                   proc_stderr, os_sep, runs>>

(***************************************************************************)
(* Step 2: the uploaders                                                   *)
(***************************************************************************)
\* temp_images / f"{poem_name}_{sanitized_name}"
StagedPath(poem_name, uploaded_name) ==
    [parent |-> "temp_images",
     name |-> poem_name \o <<"_">> \o sanitize_filename(uploaded_name)]

\* open(path, "wb").write(data): the file is created or overwritten
WriteFile(dir, name, data) ==
    {f \in dir : f.name # name} \cup {[name |-> name, data |-> data]}

\* st.file_uploader(key=poem_name): the files the widget holds
UploadedFiles(key) == IF key \in DOMAIN uploads THEN uploads[key] ELSE <<>>

\* lines 122-131 for one poem: every file the widget holds is written and its
\* path appended
RECURSIVE StageFiles(_, _, _, _)
StageFiles(poem_name, files, i, st) ==
    IF i > Len(files) THEN st
    ELSE LET image_path == StagedPath(poem_name, files[i].name)
         IN  StageFiles(poem_name, files, i + 1,
                 [images |-> Append(st.images, image_path),
                  dir |-> WriteFile(st.dir, image_path.name, files[i].data)])

\* lines 112-132: the loop over the poems
RECURSIVE StagePoems(_, _, _)
StagePoems(data, i, dir) ==
    IF i > Len(data) THEN [data |-> data, dir |-> dir]
    ELSE LET st == StageFiles(data[i].name, UploadedFiles(data[i].name), 1,
                              [images |-> data[i].images, dir |-> dir])
         IN  StagePoems([data EXCEPT ![i].images = st.images], i + 1, st.dir)

\* lines 110-132; the widgets drawn in this run keep their files, the others
\* are forgotten
UploadImages ==
    /\ pc = "step2"
    /\ pc' = "step3"
    /\ IF HasPoems
       THEN LET r == StagePoems(PoemsData, 1, temp_images)
            IN  /\ session_state' = [session_state EXCEPT !.poems_data = r.data]
                /\ temp_images' = r.dir
                /\ uploads' = [k \in DictKeys(PoemsData) |-> UploadedFiles(k)]
       ELSE /\ UNCHANGED <<session_state, temp_images>>
            /\ uploads' = NoUploads
    /\ UNCHANGED <<arg, ret, trigger, poems_dir, compiled_images, tex_file, pdf_exists,
                   template_data, invocations, proc_stdout, proc_stderr, screen, os_sep, runs>>

(***************************************************************************)
(* Step 3 and Step 4: Generate Anthology                                   *)
(***************************************************************************)
\* st.stop(), or an exception nobody catches: the script run is over
Halt == pc' = "idle"

\* lines 138-145: the header, the warning, and the Generate button
GenerateHeader ==
    /\ pc = "step3"
    /\ screen' =
          IF HasPoems /\ \E i \in 1..Len(PoemsData) : PoemsData[i].images # <<>>
          THEN screen
          ELSE Append(screen, Show("warning", "load poems and associate images"))
    /\ pc' = IF HasPoems /\ trigger = "generate" THEN "template" ELSE "idle"
    /\ UNCHANGED <<arg, ret, trigger, poems_dir, session_state, uploads, temp_images,
                   compiled_images, tex_file, pdf_exists, template_data, invocations,
                   proc_stdout, proc_stderr, os_sep, runs>>

\* lines 147-153
GetTemplate ==
    /\ pc = "template"
    /\ \E found \in BOOLEAN :
          IF found
          THEN pc' = "prepare" /\ UNCHANGED screen
          ELSE /\ screen' = Append(screen, Show("error", "loading template"))
               /\ Halt
    /\ UNCHANGED <<arg, ret, trigger, poems_dir, session_state, uploads, temp_images,
                   compiled_images, tex_file, pdf_exists, template_data, invocations,
                   proc_stdout, proc_stderr, os_sep, runs>>

compiled_images_dir == <<"c", "o", "m", "p", "i", "l", "e", "d", "_", "i", "m", "a", "g", "e", "s">>

\* str(relpath(images_dir / image_path.name, cwd)).replace('\\', '/')
RelativeImagePath(image_path) ==
    str_replace(compiled_images_dir \o <<os_sep>> \o image_path.name, BS, <<"/">>)

\* shutil.copy(image_path, dest): the staged bytes, under the same name
CopyFile(dir, image_path) ==
    LET src == CHOOSE f \in temp_images : f.name = image_path.name
    IN  WriteFile(dir, image_path.name, src.data)

\* lines 164-172 for the images [1..n] of one poem
RECURSIVE RelativePaths(_, _)
RelativePaths(images, n) ==
    IF n = 0 THEN <<>>
    ELSE Append(RelativePaths(images, n - 1), RelativeImagePath(images[n]))

RECURSIVE CopyImages(_, _, _)
CopyImages(images, n, dir) ==
    IF n = 0 THEN dir ELSE CopyFile(CopyImages(images, n - 1, dir), images[n])

\* faulty variant: a poem without images is left out of the template data
RECURSIVE TemplateEntriesWithImagesOnly(_, _)
TemplateEntriesWithImagesOnly(data, n) ==
    IF n = 0 THEN <<>>
    ELSE IF data[n].images = <<>> THEN TemplateEntriesWithImagesOnly(data, n - 1)
    ELSE DictSet(TemplateEntriesWithImagesOnly(data, n - 1), data[n].name,
                 [name |-> data[n].name,
                  content |-> str_replace(data[n].content, NL, <<BS, BS, NL>>),
                  images |-> RelativePaths(data[n].images, Len(data[n].images))])

\* lines 159-172: template_data after the poems [1..n]
RECURSIVE TemplateEntries(_, _)
TemplateEntries(data, n) ==
    IF n = 0 THEN <<>>
    ELSE DictSet(TemplateEntries(data, n - 1), data[n].name,
                 [name |-> data[n].name,
                  content |-> str_replace(data[n].content, NL, <<BS, BS, NL>>),
                  images |-> RelativePaths(data[n].images, Len(data[n].images))])

RECURSIVE CopyAll(_, _, _)
CopyAll(data, n, dir) ==
    IF n = 0 THEN dir
    ELSE CopyImages(data[n].images, Len(data[n].images), CopyAll(data, n - 1, dir))

\* the positions <<poem, image>> of the collection
AllImages(data) ==
    UNION {{<<i, j>> : j \in 1..Len(data[i].images)} : i \in 1..Len(data)}

\* lines 155-172; a copy that fails raises out of the script, with the images
\* before it already copied
PrepareTemplateData ==
    /\ pc = "prepare"
    /\ \/ /\ template_data' = TemplateEntries(PoemsData, Len(PoemsData))
          /\ compiled_images' = CopyAll(PoemsData, Len(PoemsData), compiled_images)
          /\ pc' = "render"
          /\ UNCHANGED screen
       \/ \E at \in AllImages(PoemsData) :
             /\ template_data' = <<>>
             /\ compiled_images' =
                   CopyImages(PoemsData[at[1]].images, at[2] - 1,
                              CopyAll(PoemsData, at[1] - 1, compiled_images))
             /\ screen' = Append(screen, Show("exception", "copy"))
             /\ Halt
    /\ UNCHANGED <<arg, ret, trigger, poems_dir, session_state, uploads, temp_images,
                   tex_file, pdf_exists, invocations, proc_stdout, proc_stderr, os_sep, runs>>

\* lines 174-179; latex_code is the template applied to template_data
RenderTemplate ==
    /\ pc = "render"
    /\ \E rendered \in BOOLEAN :
          IF rendered
          THEN pc' = "write" /\ UNCHANGED screen
          ELSE /\ screen' = Append(screen, Show("error", "rendering template"))
               /\ Halt
    /\ UNCHANGED <<arg, ret, trigger, poems_dir, session_state, uploads, temp_images,
                   compiled_images, tex_file, pdf_exists, template_data, invocations,
                   proc_stdout, proc_stderr, os_sep, runs>>

\* lines 181-187
WriteLatexFile ==
    /\ pc = "write"
    /\ \E written \in BOOLEAN :
          IF written
          THEN /\ tex_file' = TRUE
               /\ pc' = "pdflatex1"
               /\ UNCHANGED screen
          ELSE /\ screen' = Append(screen, Show("error", "writing file"))
               /\ UNCHANGED tex_file
               /\ Halt
    /\ UNCHANGED <<arg, ret, trigger, poems_dir, session_state, uploads, temp_images,
                   compiled_images, pdf_exists, template_data, invocations,
                   proc_stdout, proc_stderr, os_sep, runs>>

\* bytes.decode(): UTF-8, strict, over bytes below 224 and the byte 255 (one-byte
\* and two-byte sequences; a lone, cut or stray byte is an error). The result
\* is [ok, text], text a sequence of code points; ok FALSE is UnicodeDecodeError.
RECURSIVE Utf8Decode(_)
Utf8Decode(b) ==
    IF b = <<>> THEN [ok |-> TRUE, text |-> <<>>]
    ELSE IF b[1] < 128
    THEN LET rest == Utf8Decode(Tail(b))
         IN  [ok |-> rest.ok, text |-> <<b[1]>> \o rest.text]
    ELSE IF b[1] >= 194 /\ b[1] <= 223 /\ Len(b) >= 2 /\ b[2] >= 128 /\ b[2] <= 191
    THEN LET rest == Utf8Decode(Tail(Tail(b)))
         IN  [ok |-> rest.ok, text |-> <<(b[1] - 192) * 64 + (b[2] - 128)>> \o rest.text]
    ELSE [ok |-> FALSE, text |-> <<>>]

\* what a pdflatex run can leave on its two streams: "TeX" and "! " cut inside
\* a two-byte character on stdout; "!", a two-byte character and a byte that is
\* no UTF-8 on stderr
StdoutSamples == {<<84, 101, 88>>, <<33, 32, 195>>}
StderrSamples == {<<33>>, <<195, 169>>, <<255>>}

\* lines 205-211: the handler of CalledProcessError
CompileErrorHandler(out, err) ==
    LET error_output == Utf8Decode(err)
        stdout_output == Utf8Decode(out)
    IN  /\ screen' =
              IF error_output.ok /\ stdout_output.ok
              THEN screen \o <<ShowDetail("error", "compiling", error_output.text),
                               Show("text", "LaTeX Compilation Output:"),
                               ShowDetail("text", "stdout", stdout_output.text)>>
              ELSE Append(screen, Show("exception", "UnicodeDecodeError"))
        /\ Halt

\* faulty variant: the handler reports and does not stop the script
CompileErrorNoStop(out, err) ==
    /\ screen' = Append(screen, ShowDetail("error", "compiling", Utf8Decode(err).text))
    /\ pc' = "downloads"

OnCalledProcessError(out, err) == CompileErrorHandler(out, err)

\* subprocess.run(["pdflatex", "anthology.tex"], check=True, ...)
RunPdflatex(next) ==
    \E rc \in {0, 1}, out \in StdoutSamples, err \in StderrSamples, produced \in BOOLEAN :
        /\ invocations' = Append(invocations, rc)
        /\ pdf_exists' = (pdf_exists \/ produced)
        /\ IF rc = 0
           THEN /\ next
                /\ UNCHANGED <<proc_stdout, proc_stderr>>
           ELSE /\ proc_stdout' = out
                /\ proc_stderr' = err
                /\ OnCalledProcessError(out, err)

\* lines 192-197
FirstPdflatex ==
    /\ pc = "pdflatex1"
    /\ RunPdflatex(pc' = "pdflatex2" /\ UNCHANGED screen)
    /\ UNCHANGED <<arg, ret, trigger, poems_dir, session_state, uploads, temp_images,
                   compiled_images, tex_file, template_data, os_sep, runs>>

\* lines 198-204
SecondPdflatex ==
    /\ pc = "pdflatex2"
    /\ RunPdflatex(/\ pc' = "downloads"
                   /\ screen' = Append(screen, Show("success", "PDF compiled")))
    /\ UNCHANGED <<arg, ret, trigger, poems_dir, session_state, uploads, temp_images,
                   compiled_images, tex_file, template_data, os_sep, runs>>

\* lines 213-232
ProvideDownloads ==
    /\ pc = "downloads"
    /\ screen' = screen
          \o (IF pdf_exists THEN <<Show("download", "anthology.pdf")>> ELSE <<>>)
          \o (IF tex_file THEN <<Show("download", "anthology.tex")>> ELSE <<>>)
    /\ pc' = "idle"
    /\ UNCHANGED <<arg, ret, trigger, poems_dir, session_state, uploads, temp_images,
                   compiled_images, tex_file, pdf_exists, template_data, invocations,
                   proc_stdout, proc_stderr, os_sep, runs>>

(***************************************************************************)
(* The state of the application before the first interaction.              *)
(***************************************************************************)
AppStart ==
    /\ pc = "idle"
    /\ trigger = "none"
    /\ session_state = NoSession
    /\ uploads = NoUploads
    /\ temp_images = {}
    /\ compiled_images = {}
    /\ tex_file = FALSE
    /\ pdf_exists = FALSE
    /\ template_data = <<>>
    /\ invocations = <<>>
    /\ proc_stdout = <<>>
    /\ proc_stderr = <<>>
    /\ screen = <<>>
    /\ runs = 0

(***************************************************************************)
(* The user. Every interaction starts a run of the whole script, which     *)
(* draws the page anew.                                                    *)
(***************************************************************************)
BeginRun(t) ==
    /\ pc = "idle"
    /\ pc' = "step1"
    /\ trigger' = t
    /\ screen' = <<>>
    /\ template_data' = <<>>
    /\ invocations' = <<>>
    /\ proc_stdout' = <<>>
    /\ proc_stderr' = <<>>
    /\ runs < MaxRuns
    /\ runs' = runs + 1
    /\ UNCHANGED <<arg, ret, session_state, temp_images, compiled_images, tex_file,
                   pdf_exists, os_sep>>

RECURSIVE TotalUploads(_)
TotalUploads(keys) ==
    IF keys = {} THEN 0
    ELSE LET k == CHOOSE x \in keys : TRUE
         IN  Len(uploads[k]) + TotalUploads(keys \ {k})

\* the run about to start keeps every images list within the bound
RunFits(upl) ==
    \A i \in 1..Len(PoemsData) :
        Len(PoemsData[i].images)
          + (IF PoemsData[i].name \in DOMAIN upl THEN Len(upl[PoemsData[i].name]) ELSE 0)
            <= MaxImages

\* line 78: the user edits the directory field
EditPoemsDir ==
    /\ RunFits(uploads)
    /\ \E d \in DirInputs \ {poems_dir} : poems_dir' = d
    /\ BeginRun("rerun")
    /\ UNCHANGED uploads

\* line 82: the user presses Load Poems
ClickLoadPoems ==
    /\ RunFits(uploads)
    /\ BeginRun("load")
    /\ UNCHANGED <<poems_dir, uploads>>

\* lines 115-120: the user adds a file to the uploader of one poem
AddUpload ==
    /\ TotalUploads(DOMAIN uploads) < MaxUploads
    /\ \E k \in DOMAIN uploads, f \in UploadChoices :
          /\ uploads' = [uploads EXCEPT ![k] = Append(@, f)]
          /\ RunFits(uploads')
    /\ BeginRun("rerun")
    /\ UNCHANGED poems_dir

\* lines 115-120: the user takes a file off an uploader
RemoveUpload ==
    /\ \E k \in DOMAIN uploads : \E i \in 1..Len(uploads[k]) :
          /\ uploads' = [uploads EXCEPT
                            ![k] = SubSeq(@, 1, i - 1) \o SubSeq(@, i + 1, Len(@))]
          /\ RunFits(uploads')
    /\ BeginRun("rerun")
    /\ UNCHANGED poems_dir

\* line 145: the user presses Generate Anthology (drawn once poems are loaded)
ClickGenerate ==
    /\ HasPoems
    /\ RunFits(uploads)
    /\ BeginRun("generate")
    /\ UNCHANGED <<poems_dir, uploads>>

\* lines 48-57: cleanup, registered with atexit
Cleanup ==
    /\ pc = "idle"
    /\ pc' = "exited"
    /\ temp_images' = {}
    /\ compiled_images' = {}
    /\ UNCHANGED <<arg, ret, trigger, poems_dir, session_state, uploads, tex_file,
                   pdf_exists, template_data, invocations, proc_stdout, proc_stderr,
                   screen, os_sep, runs>>

Init ==
    /\ arg = <<>>
    /\ ret = <<>>
    /\ AppStart
    /\ poems_dir = "cwd"
    /\ os_sep \in {"/", BS}

Next ==
    \/ EditPoemsDir
    \/ ClickLoadPoems
    \/ AddUpload
    \/ RemoveUpload
    \/ ClickGenerate
    \/ LoadPoems
    \/ UploadImages
    \/ GenerateHeader
    \/ GetTemplate
    \/ PrepareTemplateData
    \/ RenderTemplate
    \/ WriteLatexFile
    \/ FirstPdflatex
    \/ SecondPdflatex
    \/ ProvideDownloads
    \/ Cleanup

Spec == Init /\ [][Next]_vars

(***************************************************************************)
(* The helpers on their own: each specification draws the argument in its  *)
(* initial state and applies the helper to it.                             *)
(***************************************************************************)
EscapeAlphabet == {BS, "{", "}", "#", "$", "%", "&", "_", "~", "^", "a", " ", NL}

\* the spec's sample text: 50% & $5 {ok}
EscapeExample == <<"5", "0", "%", " ", "&", " ", "$", "5", " ", "{", "o", "k", "}">>

EscapeInputs == SeqsUpTo(EscapeAlphabet, MaxLen) \cup {EscapeExample}

SanitizeAlphabet == {"a", "1", "_", "-", ".", " ", "#", TAB, "/"}

\* the spec's sample name: my photo #1.png
SanitizeExample ==
    <<"m", "y", " ", "p", "h", "o", "t", "o", " ", "#", "1", ".", "p", "n", "g">>

SanitizeInputs == SeqsUpTo(SanitizeAlphabet, MaxLen) \cup {SanitizeExample}

HelperApp == AppStart /\ poems_dir = "cwd" /\ os_sep = "/"

InitEscape == arg \in EscapeInputs /\ ret = <<>> /\ HelperApp

EscapeLatexCall ==
    /\ ret = <<>>
    /\ ret' = <<escape_latex(arg)>>
    /\ UNCHANGED <<arg, appvars>>

NextEscape == EscapeLatexCall

SpecEscape == InitEscape /\ [][NextEscape]_vars

InitSanitize == arg \in SanitizeInputs /\ ret = <<>> /\ HelperApp

\* sanitize_filename(arg), then sanitize_filename of what that returned
SanitizeFilenameCall ==
    /\ Len(ret) < 2
    /\ ret' = Append(ret, sanitize_filename(IF ret = <<>> THEN arg ELSE ret[Len(ret)]))
    /\ UNCHANGED <<arg, appvars>>

NextSanitize == SanitizeFilenameCall

SpecSanitize == InitSanitize /\ [][NextSanitize]_vars

(***************************************************************************)
(* Claims about the helpers.                                               *)
(***************************************************************************)
MarkupSpecial == {BS, "{", "}", "#", "$", "%", "&", "_", "~", "^"}

\* what one character of the input contributes to the escaped text
EscapedPiece(c) == IF c \in MarkupSpecial THEN replacements[c] ELSE <<c>>

\* length of the pieces of s[1..n]
RECURSIVE PiecesLen(_, _)
PiecesLen(s, n) == IF n = 0 THEN 0 ELSE PiecesLen(s, n - 1) + Len(EscapedPiece(s[n]))

\* r is the pieces of s laid end to end
IsPiecewise(s, r) ==
    /\ Len(r) = PiecesLen(s, Len(s))
    /\ \A i \in 1..Len(s) :
          SubSeq(r, PiecesLen(s, i - 1) + 1, PiecesLen(s, i)) = EscapedPiece(s[i])

\* from position i on, every markup-special character of r lies inside one of
\* the table's escape sequences
RECURSIVE InEscapesFrom(_, _)
InEscapesFrom(r, i) ==
    IF i > Len(r) THEN TRUE
    ELSE IF r[i] \notin MarkupSpecial THEN InEscapesFrom(r, i + 1)
    ELSE \E c \in MarkupSpecial :
            LET e == replacements[c]
            IN  /\ i + Len(e) - 1 <= Len(r)
                /\ SubSeq(r, i, i + Len(e) - 1) = e
                /\ InEscapesFrom(r, i + Len(e))

\* C1: escape_latex(s) is, character by character of s, the table replacement
\* of a markup-special character and the character itself otherwise (one pass,
\* nothing produced by a replacement is escaped again), and every special
\* character of the result belongs to one of the table's escape sequences.
C1_SinglePassEscape ==
    ret # <<>> => IsPiecewise(arg, ret[1]) /\ InEscapesFrom(ret[1], 1)

\* C1 witness: a backslash followed by a brace has been escaped, the braces of
\* \textbackslash{} left alone
C1_Witness == arg = <<BS, "{">> /\ ret = <<textbackslash \o <<BS, "{">>>>

\* 50\% \& \$5 \{ok\}
EscapeExampleResult ==
    <<"5", "0", BS, "%", " ", BS, "&", " ", BS, "$", "5", " ", BS, "{", "o", "k", BS, "}">>

\* 50\%\ \&\ \$5\ \{ok\}  (the text the spec prints)
EscapeExampleAsPrinted ==
    <<"5", "0", BS, "%", BS, " ", BS, "&", BS, " ", BS, "$", "5", BS, " ",
      BS, "{", "o", "k", BS, "}">>

\* C2 (amended): escape_latex of "50% & $5 {ok}" is 50\% \& \$5 \{ok\}: the
\* characters %, &, $, { and } each get a backslash in front, and every space
\* stays a bare space.
C2_ExampleEscaped == (arg = EscapeExample /\ ret # <<>>) => ret[1] = EscapeExampleResult

\* C2 witness: the sample text has been escaped
C2_Witness == arg = EscapeExample /\ ret = <<EscapeExampleResult>>

\* C2 as stated: escape_latex of "50% & $5 {ok}" is 50\%\ \&\ \$5\ \{ok\}
C2_AsStated == (arg = EscapeExample /\ ret # <<>>) => ret[1] = EscapeExampleAsPrinted

\* my_photo_1.png
SanitizeExampleResult ==
    <<"m", "y", "_", "p", "h", "o", "t", "o", "_", "1", ".", "p", "n", "g">>

\* my_photo1.png  (the name the spec prints)
SanitizeExampleAsPrinted ==
    <<"m", "y", "_", "p", "h", "o", "t", "o", "1", ".", "p", "n", "g">>

\* C3 (amended): sanitize_filename("my photo #1.png") returns "my_photo_1.png":
\* both spaces become underscores and only the '#' is removed.
C3_ExampleSanitized ==
    (arg = SanitizeExample /\ ret # <<>>) => ret[1] = SanitizeExampleResult

\* C3 witness: the sample name has been sanitized
C3_Witness == arg = SanitizeExample /\ Len(ret) >= 1 /\ ret[1] = SanitizeExampleResult

\* C3 as stated: sanitize_filename("my photo #1.png") returns "my_photo1.png"
C3_AsStated == (arg = SanitizeExample /\ ret # <<>>) => ret[1] = SanitizeExampleAsPrinted

\* C4: sanitize_filename is idempotent, and what one application returns holds
\* only letters, digits, underscore, hyphen and dot.
C4_SanitizeIdempotent ==
    /\ ret # <<>> =>
          \A i \in 1..Len(ret[1]) : ret[1][i] \in Letters \cup Digits \cup {"_", "-", "."}
    /\ Len(ret) = 2 => ret[2] = ret[1]

\* C4 witness: a name with a space, a '#' and a tab was sanitized twice
C4_Witness == arg = <<" ", "#", TAB>> /\ ret = <<<<"_">>, <<"_">>>>

(***************************************************************************)
(* Claims about the application.                                           *)
(***************************************************************************)
RunOver == pc \in {"idle", "exited"}

ImagePaths(entry) == {entry.images[m] : m \in 1..Len(entry.images)}

\* C5: for any two different poems of the collection, every image staged for
\* one has a storage path different from every image staged for the other, so
\* a staged path is recorded only in the images list of its own poem.
C5_PathsDistinctAcrossPoems ==
    \A i, j \in 1..Len(PoemsData) :
        i # j => ImagePaths(PoemsData[i]) \cap ImagePaths(PoemsData[j]) = {}

\* the Load Poems handler has just stored a collection
JustLoaded ==
    pc = "step2" /\ trigger = "load" /\ screen = <<Show("success", "found poems")>>

\* C6: a successful Load Poems leaves exactly one entry per file directly in
\* the directory that ends in .txt and is not excluded, keyed by the file's
\* base name, holding escape_latex of its text and no images.
C6_OneEntryPerTextFile ==
    JustLoaded =>
        LET listed == {f \in Directories[poems_dir].files :
                          /\ EndsWith(f.name, <<".", "t", "x", "t">>)
                          /\ f.name \notin EXCLUDED_FILES}
        IN  /\ Len(PoemsData) = Cardinality(listed)
            /\ \A f \in listed : \E i \in 1..Len(PoemsData) :
                  PoemsData[i] = [name |-> Stem(f.name),
                                  content |-> escape_latex(f.text),
                                  images |-> <<>>]

\* UTF-8 of a text of code points below 2048
RECURSIVE Utf8Encode(_)
Utf8Encode(t) ==
    IF t = <<>> THEN <<>>
    ELSE (IF t[1] < 128 THEN <<t[1]>> ELSE <<192 + (t[1] \div 64), 128 + (t[1] % 64)>>)
         \o Utf8Encode(Tail(t))

\* C7: one Generate runs the compiler at most twice; when the first run exits
\* non-zero no further run is made and the captured stderr text is shown to the
\* user as it was captured.
C7_FirstFailureSurfacesStderr ==
    /\ Len(invocations) <= 2
    /\ (Len(invocations) >= 1 /\ invocations[1] # 0) =>
          /\ Len(invocations) = 1
          /\ RunOver
          /\ Utf8Decode(proc_stderr).ok =>
                \E i \in 1..Len(screen) :
                    /\ screen[i].kind = "error"
                    /\ screen[i].what = "compiling"
                    /\ Utf8Encode(screen[i].detail) = proc_stderr

\* what one character of a poem's content contributes to the template's text
BrokenPiece(c) == IF c = NL THEN <<BS, BS, NL>> ELSE <<c>>

RECURSIVE BrokenLen(_, _)
BrokenLen(s, n) == IF n = 0 THEN 0 ELSE BrokenLen(s, n - 1) + Len(BrokenPiece(s[n]))

\* r is s with the line-break marker put before each newline
IsLineBroken(s, r) ==
    /\ Len(r) = BrokenLen(s, Len(s))
    /\ \A i \in 1..Len(s) :
          SubSeq(r, BrokenLen(s, i - 1) + 1, BrokenLen(s, i)) = BrokenPiece(s[i])

\* the Generate run has built the data it hands to the template
TemplateDataBuilt == pc \in {"render", "write", "pdflatex1", "pdflatex2", "downloads"}

\* C8: the data handed to the template holds one entry per poem of the
\* collection, in insertion order, with the poem's escaped content (the
\* line-break marker before each newline) and one forward-slash relative path
\* per entry of the poem's images list, in order; a poem without images gets an
\* empty list, and the run does not fail over it.
C8_EveryPoemRendered ==
    /\ TemplateDataBuilt =>
          /\ Len(template_data) = Len(PoemsData)
          /\ \A i \in 1..Len(PoemsData) :
                /\ template_data[i].name = PoemsData[i].name
                /\ IsLineBroken(PoemsData[i].content, template_data[i].content)
                /\ Len(template_data[i].images) = Len(PoemsData[i].images)
                /\ \A j \in 1..Len(PoemsData[i].images) :
                      template_data[i].images[j] =
                          compiled_images_dir \o <<"/">> \o PoemsData[i].images[j].name
    /\ (RunOver /\ screen # <<>> /\ screen[Len(screen)] = Show("exception", "copy")) =>
          \E i \in 1..Len(PoemsData) : PoemsData[i].images # <<>>

\* C8 witness: on a backslash host, data built for a poem with a newline and
\* two different images and a poem with no image
C8_Witness ==
    /\ pc = "render"
    /\ os_sep = BS
    /\ Len(PoemsData) = 2
    /\ \E i, j \in 1..2 :
          /\ \E m, n \in 1..Len(PoemsData[i].images) :
                PoemsData[i].images[m] # PoemsData[i].images[n]
          /\ \E k \in 1..Len(PoemsData[i].content) : PoemsData[i].content[k] = NL
          /\ PoemsData[j].images = <<>>
          /\ template_data[j].images = <<>>

IsFailure(e) ==
    \/ e.kind = "exception"
    \/ e.kind = "error" /\ e.what \in {"loading template", "rendering template",
                                       "writing file", "compiling"}

GenerateFailed == \E i \in 1..Len(screen) : IsFailure(screen[i])

\* C9: when a step of Generate fails (template, render, writing the source
\* file, a compiler run), the run ends there: nothing is drawn behind the
\* failure's report, no compiler run follows, and no download is offered.
C9_FailureHaltsGenerate ==
    GenerateFailed =>
        /\ RunOver
        /\ \A i \in 1..Len(screen) :
              /\ screen[i].kind # "download"
              /\ (screen[i].kind = "exception" => i = Len(screen))
              /\ (screen[i].kind = "error" /\ screen[i].what # "compiling" =>
                     i = Len(screen) /\ invocations = <<>>)
              /\ (screen[i].kind = "error" /\ screen[i].what = "compiling" =>
                     i = Len(screen) - 2 /\ invocations # <<>>
                       /\ invocations[Len(invocations)] # 0)
        /\ \A k \in 1..Len(invocations) - 1 : invocations[k] = 0

\* C9 witness: the second compiler run failed with both files on disk
C9_Witness ==
    /\ pc = "idle"
    /\ invocations = <<0, 1>>
    /\ tex_file
    /\ pdf_exists
    /\ GenerateFailed

\* C10: between script runs, the images list of every poem holds exactly one
\* reference per file its uploader holds, in upload order.
C10_ImagesMatchUploads ==
    pc = "idle" =>
        \A i \in 1..Len(PoemsData) :
            LET files == UploadedFiles(PoemsData[i].name)
            IN  PoemsData[i].images =
                    [j \in 1..Len(files) |-> StagedPath(PoemsData[i].name, files[j].name)]

====
